---- MODULE Spec2Model ----
(***************************************************************************)
(* Model of src/app.py: the NCM lookup pipeline (normalizer, validator,    *)
(* cached remote client, field extractor, resolver buscar_ncm and the      *)
(* batch loop run when the "Consultar NCMs" button is pressed).            *)
(*                                                                         *)
(* Python strings are modelled as sequences of one-character strings, so   *)
(* that length, digit tests, strip and split are computed, not assumed.    *)
(***************************************************************************)
EXTENDS Integers, Sequences, FiniteSets, TLC

(***************************************************************************)
(* Bounds of the model                                                     *)
(***************************************************************************)
\* longest JSON list a response carries (SpecResolve)
MaxList == 2
\* number of pieces (codes and delimiters) pasted in the text area
MaxTokens == 3
\* number of times the button is pressed
MaxRuns == 3
\* number of waits between two presses of the button
MaxWaits == 2
\* number of characters typed in the text area (SpecNormalize)
MaxChars == 5

(***************************************************************************)
(* Strings                                                                 *)
(***************************************************************************)
Digits == {"0", "1", "2", "3", "4", "5", "6", "7", "8", "9"}

\* characters removed by str.strip()
Whitespace == {" ", "\t", "\n", "\r", "\f"}

RECURSIVE LStrip(_)
LStrip(s) == IF s # <<>> /\ Head(s) \in Whitespace THEN LStrip(Tail(s)) ELSE s

RECURSIVE RStrip(_)
RStrip(s) ==
    IF s # <<>> /\ s[Len(s)] \in Whitespace
    THEN RStrip(SubSeq(s, 1, Len(s) - 1))
    ELSE s

Strip(s) == RStrip(LStrip(s))

\* Python's `a or b` on strings/None: the first truthy operand, else the last
Or(a, b) == IF a # <<>> THEN a ELSE b

NcmA == <<"2", "1", "0", "4", "1", "0", "1", "9">>
NcmB == <<"0", "8", "0", "1", "1", "1", "0", "0">>
PadA == <<" ">> \o NcmA \o <<" ">>
Desc == <<"C", "a", "f", "e">>

\* decimal rendering of a natural number, as str(n) / an f-string does
DigitChar(d) == <<"0", "1", "2", "3", "4", "5", "6", "7", "8", "9">>[d + 1]

RECURSIVE ToStr(_)
ToStr(n) == IF n < 10 THEN <<DigitChar(n)>> ELSE ToStr(n \div 10) \o <<DigitChar(n % 10)>>

\* s contains t as a contiguous substring
Contains(s, t) ==
    \E i \in 0..(Len(s) - Len(t)) : SubSeq(s, i + 1, i + Len(t)) = t

(***************************************************************************)
(* Constants of the program                                                *)
(***************************************************************************)
API_BASE == "https://brasilapi.com.br/api/ncm/v1"
\* \d{8}
NcmLen == 8
\* @st.cache_data(ttl=60*30), in seconds
TTL == 60 * 30
\* number_input max_value=2.0, in seconds
DelayMax == 2

(***************************************************************************)
(* Normalizer: limpar_lista_codigos                                        *)
(***************************************************************************)
Delims == {";", "\n", "\r", "\t", " "}

ReplaceDelims(s) == [i \in 1..Len(s) |-> IF s[i] \in Delims THEN "," ELSE s[i]]

\* str.split(","): the pieces between commas, empty pieces included
RECURSIVE SplitComma(_, _)
SplitComma(s, cur) ==
    IF s = <<>> THEN <<cur>>
    ELSE IF Head(s) = "," THEN <<cur>> \o SplitComma(Tail(s), <<>>)
    ELSE SplitComma(Tail(s), Append(cur, Head(s)))

\* [p.strip() for p in parts if p.strip()]
RECURSIVE StripNonEmpty(_)
StripNonEmpty(ps) ==
    IF ps = <<>> THEN <<>>
    ELSE IF Strip(Head(ps)) # <<>>
         THEN <<Strip(Head(ps))>> \o StripNonEmpty(Tail(ps))
         ELSE StripNonEmpty(Tail(ps))

Range(q) == {q[i] : i \in 1..Len(q)}

\* the vistos/saida loop: keep the first occurrence of each piece
RECURSIVE Dedup(_, _)
Dedup(ps, saida) ==
    IF ps = <<>> THEN saida
    ELSE IF Head(ps) \in Range(saida)
         THEN Dedup(Tail(ps), saida)
         ELSE Dedup(Tail(ps), Append(saida, Head(ps)))

\* the normalizer without the vistos/saida loop: repeated pieces are kept
limpar_lista_com_repetidos(raw) ==
    IF raw = <<>> THEN <<>>
    ELSE StripNonEmpty(SplitComma(ReplaceDelims(raw), <<>>))

limpar_lista_codigos(raw) ==
    IF raw = <<>> THEN <<>>
    ELSE Dedup(StripNonEmpty(SplitComma(ReplaceDelims(raw), <<>>)), <<>>)

(***************************************************************************)
(* Validator: validar_ncm                                                  *)
(***************************************************************************)
MotivoVazio == <<"Codigo vazio">>
MotivoFormato == <<"NCM deve ter 8 digitos numericos (ex.: 21041019)">>

\* re.fullmatch(r"\d{8}", code)
FullMatchNcm(code) == Len(code) = NcmLen /\ \A i \in 1..Len(code) : code[i] \in Digits

\* the validator without the length test
validar_ncm_sem_tamanho(code) ==
    IF code = <<>> THEN [ok |-> FALSE, motivo |-> MotivoVazio]
    ELSE IF \E i \in 1..Len(code) : code[i] \notin Digits
    THEN [ok |-> FALSE, motivo |-> MotivoFormato]
    ELSE [ok |-> TRUE, motivo |-> <<>>]

validar_ncm(code) ==
    IF code = <<>> THEN [ok |-> FALSE, motivo |-> MotivoVazio]
    ELSE IF ~FullMatchNcm(code) THEN [ok |-> FALSE, motivo |-> MotivoFormato]
    ELSE [ok |-> TRUE, motivo |-> <<>>]

(***************************************************************************)
(* JSON values of a response body.  A dict keeps the four fields the       *)
(* program reads (<<>> stands for a missing or falsy value) and whether    *)
(* it has any key at all ({} is falsy in Python).                          *)
(***************************************************************************)
NoDict == [code |-> <<>>, codigo |-> <<>>, description |-> <<>>, descricao |-> <<>>,
           chaves |-> FALSE]

JNull == [kind |-> "null", d |-> NoDict, items |-> <<>>]
JScalar == [kind |-> "scalar", d |-> NoDict, items |-> <<>>]
JDict(d) == [kind |-> "dict", d |-> d, items |-> <<>>]
JList(q) == [kind |-> "list", d |-> NoDict, items |-> q]

\* bool(x) of a decoded JSON value (the scalar stands for a non-empty string)
Truthy(j) ==
    CASE j.kind = "null" -> FALSE
      [] j.kind = "scalar" -> TRUE
      [] j.kind = "dict" -> j.d.chaves
      [] j.kind = "list" -> j.items # <<>>

(***************************************************************************)
(* Field extractor: extrair_desc_item.  Defined on mappings only: on any   *)
(* other value item.get raises AttributeError (see CanExtract).            *)
(***************************************************************************)
CanExtract(j) == j.kind = "dict"

extrair_desc_item(j) ==
    [c |-> Strip(Or(Or(j.d.code, j.d.codigo), <<>>)),
     d |-> Strip(Or(Or(j.d.description, j.d.descricao), <<>>))]

(***************************************************************************)
(* Result records                                                          *)
(***************************************************************************)
ExactUrl(code) == <<API_BASE, "/">> \o code
SearchUrl(code) == <<API_BASE, "?search=">> \o code

Rec(input_code, code, description, source, status, detail) ==
    [input_code |-> input_code, code |-> code, description |-> description,
     source |-> source, status |-> status, detail |-> detail]

NoRec == Rec(<<>>, <<>>, <<>>, <<>>, "", <<>>)

NoExc == [classe |-> "", origem |-> ""]
AttributeError == [classe |-> "AttributeError", origem |-> "extrair_desc_item"]

\* outcome of a stage of buscar_ncm: a returned record, a raised exception,
\* or falling through to the next statement
Ret(r) == [tag |-> "ret", rec |-> r, exc |-> NoExc]
Raise(e) == [tag |-> "raise", rec |-> NoRec, exc |-> e]
FallThrough == [tag |-> "next", rec |-> NoRec, exc |-> NoExc]

DetSemDescExato == <<"Sem descricao no retorno do endpoint exato">>
DetSemDescLista == <<"Sem descricao (lista)">>
DetSemDescSearch == <<"Sem descricao no item (search)">>
DetPrimeiro == <<"Sem match exato; retornado o primeiro da busca">>
DetNaoEncontrado == <<"Nao encontrado">>

DetHttpExato(st) == <<"HTTP ">> \o ToStr(st) \o <<" no endpoint exato">>
DetHttpSearch(st) == <<"HTTP ">> \o ToStr(st) \o <<" no endpoint search">>

\* the record built from an extracted pair (c, d)
RecDe(code, cd, source, detSemDesc, detComDesc) ==
    Rec(code, Or(cd.c, code), cd.d, source,
        IF cd.d # <<>> THEN "ok" ELSE "not_found",
        IF cd.d # <<>> THEN detComDesc ELSE detSemDesc)

\* for item in data: c, d = extrair_desc_item(item); if c == code: return ...
\* -1: an item that is not a mapping was reached first (AttributeError),
\*  0: the loop ended without a match, i > 0: the first matching position
RECURSIVE ScanMatch(_, _, _)
ScanMatch(items, code, i) ==
    IF i > Len(items) THEN 0
    ELSE IF ~CanExtract(items[i]) THEN -1
    ELSE IF extrair_desc_item(items[i]).c = code THEN i
    ELSE ScanMatch(items, code, i + 1)

(***************************************************************************)
(* Resolver: the two stages of buscar_ncm after the validation             *)
(***************************************************************************)
\* the exact stage letting a 503 go on to the search
StatusExatoSegueCom503 == {200, 404, 422, 0, 503}

\* the exact stage treating a 422 as any other unexpected status
StatusExatoSegueSem422 == {200, 404, 0}

StatusExatoSegue == {200, 404, 422, 0}

\* the search stage treating a transport failure as an unexpected status
StatusBuscaSegueSemZero == {200, 404}

StatusBuscaSegue == {200, 404, 0}

RecInvalido(code, motivo) == Rec(code, <<>>, <<>>, <<>>, "invalid", motivo)
RecErroExato(code, st) == Rec(code, <<>>, <<>>, ExactUrl(code), "error", DetHttpExato(st))
\* the error record of the search stage carrying the URL of the exact endpoint
RecErroBuscaComUrlExata(code, st) ==
    Rec(code, <<>>, <<>>, ExactUrl(code), "error", DetHttpSearch(st))

RecErroBusca(code, st) == Rec(code, <<>>, <<>>, SearchUrl(code), "error", DetHttpSearch(st))
RecNaoEncontrado(code) == Rec(code, code, <<>>, <<>>, "not_found", DetNaoEncontrado)

\* the exact stage taking the first item of a list that holds no match
EstagioExatoPosicional(code, st, data) ==
    IF st = 200 /\ Truthy(data) /\ data.kind = "dict"
    THEN Ret(RecDe(code, extrair_desc_item(data), ExactUrl(code), DetSemDescExato, <<>>))
    ELSE LET m == IF st = 200 /\ Truthy(data) /\ data.kind = "list"
                  THEN ScanMatch(data.items, code, 1)
                  ELSE 0
         IN  IF m = -1 THEN Raise(AttributeError)
             ELSE IF m > 0
             THEN Ret(RecDe(code, extrair_desc_item(data.items[m]), ExactUrl(code),
                            DetSemDescLista, <<>>))
             ELSE IF st = 200 /\ Truthy(data) /\ data.kind = "list"
             THEN Ret(RecDe(code, extrair_desc_item(data.items[1]), ExactUrl(code),
                            DetSemDescLista, <<>>))
             ELSE IF st \notin StatusExatoSegue THEN Ret(RecErroExato(code, st))
             ELSE FallThrough

\* the exact stage going on to the search when the single object has no
\* description
EstagioExatoSemDescSegue(code, st, data) ==
    IF st = 200 /\ Truthy(data) /\ data.kind = "dict"
    THEN IF extrair_desc_item(data).d # <<>>
         THEN Ret(RecDe(code, extrair_desc_item(data), ExactUrl(code), DetSemDescExato,
                        <<>>))
         ELSE FallThrough
    ELSE LET m == IF st = 200 /\ Truthy(data) /\ data.kind = "list"
                  THEN ScanMatch(data.items, code, 1)
                  ELSE 0
         IN  IF m = -1 THEN Raise(AttributeError)
             ELSE IF m > 0
             THEN Ret(RecDe(code, extrair_desc_item(data.items[m]), ExactUrl(code),
                            DetSemDescLista, <<>>))
             ELSE IF st \notin StatusExatoSegue THEN Ret(RecErroExato(code, st))
             ELSE FallThrough

\* lines 181-214: what follows status, data = consultar_ncm_exato(code)
EstagioExato(code, st, data) ==
    IF st = 200 /\ Truthy(data) /\ data.kind = "dict"
    THEN Ret(RecDe(code, extrair_desc_item(data), ExactUrl(code), DetSemDescExato, <<>>))
    ELSE LET m == IF st = 200 /\ Truthy(data) /\ data.kind = "list"
                  THEN ScanMatch(data.items, code, 1)
                  ELSE 0
         IN  IF m = -1 THEN Raise(AttributeError)
             ELSE IF m > 0
             THEN Ret(RecDe(code, extrair_desc_item(data.items[m]), ExactUrl(code),
                            DetSemDescLista, <<>>))
             ELSE IF st \notin StatusExatoSegue THEN Ret(RecErroExato(code, st))
             ELSE FallThrough

\* the search stage taking the first item without looking for a match
EstagioBuscaPrimeiro(code, st2, data2) ==
    IF st2 = 200 /\ Truthy(data2)
    THEN IF ~CanExtract(data2.items[1]) THEN Raise(AttributeError)
         ELSE Ret(RecDe(code, extrair_desc_item(data2.items[1]), SearchUrl(code),
                        DetPrimeiro, DetPrimeiro))
    ELSE IF st2 \notin {200, 404, 0} THEN Ret(RecErroBusca(code, st2))
    ELSE Ret(RecNaoEncontrado(code))

\* the search stage leaving the detail of a first-item record empty when the
\* item has a description
EstagioBuscaSemAviso(code, st2, data2) ==
    IF st2 = 200 /\ Truthy(data2)
    THEN LET m == ScanMatch(data2.items, code, 1)
         IN  IF m = -1 THEN Raise(AttributeError)
             ELSE IF m > 0
             THEN Ret(RecDe(code, extrair_desc_item(data2.items[m]), SearchUrl(code),
                            DetSemDescSearch, <<>>))
             ELSE Ret(RecDe(code, extrair_desc_item(data2.items[1]), SearchUrl(code),
                            DetPrimeiro, <<>>))
    ELSE IF st2 \notin StatusBuscaSegue THEN Ret(RecErroBusca(code, st2))
    ELSE Ret(RecNaoEncontrado(code))

\* lines 217-260: what follows status2, data2 = consultar_ncm_busca(code)
EstagioBusca(code, st2, data2) ==
    IF st2 = 200 /\ Truthy(data2)
    THEN LET m == ScanMatch(data2.items, code, 1)
         IN  IF m = -1 THEN Raise(AttributeError)
             ELSE IF m > 0
             THEN Ret(RecDe(code, extrair_desc_item(data2.items[m]), SearchUrl(code),
                            DetSemDescSearch, <<>>))
             ELSE Ret(RecDe(code, extrair_desc_item(data2.items[1]), SearchUrl(code),
                            DetPrimeiro, DetPrimeiro))
    ELSE IF st2 \notin StatusBuscaSegue THEN Ret(RecErroBusca(code, st2))
    ELSE Ret(RecNaoEncontrado(code))

(***************************************************************************)
(* Remote client.  One requests.get ends in a response (status, decoded    *)
(* body) or in an exception; r.json() on a 200 whose body is not JSON      *)
(* raises requests' JSONDecodeError (a RequestException, requests >= 2.27) *)
(* or a plain ValueError (older requests), depending on the installed      *)
(* library, and a RecursionError on a deeply nested body: all are          *)
(* outcomes.                                                               *)
(***************************************************************************)
RequestExceptions == {"ConnectionError", "Timeout", "JSONDecodeError"}
OtherExceptions == {"ValueError", "RecursionError"}

Resp(st, body) == [tipo |-> "resp", st |-> st, body |-> body, classe |-> ""]
Exc(classe) == [tipo |-> "exc", st |-> 0, body |-> JNull, classe |-> classe]

Val(st, data) == [st |-> st, data |-> data]
Returns(v) == [tag |-> "ret", val |-> v, exc |-> NoExc]
Raises(classe, origem) ==
    [tag |-> "raise", val |-> Val(0, JNull), exc |-> [classe |-> classe, origem |-> origem]]

\* except requests.RequestException
Catches(classe) == classe \in RequestExceptions

\* body of consultar_ncm_exato on the outcome o of its requests.get
consultar_ncm_exato(o) ==
    IF o.tipo = "exc"
    THEN IF Catches(o.classe) THEN Returns(Val(0, JNull))
         ELSE Raises(o.classe, "consultar_ncm_exato")
    ELSE IF o.st = 200 THEN Returns(Val(200, o.body))
    ELSE Returns(Val(o.st, JNull))

\* body of consultar_ncm_busca on the outcome o of its requests.get
consultar_ncm_busca(o) ==
    IF o.tipo = "exc"
    THEN IF Catches(o.classe) THEN Returns(Val(0, JNull))
         ELSE Raises(o.classe, "consultar_ncm_busca")
    ELSE IF o.st = 200
    THEN IF o.body.kind = "list" THEN Returns(Val(200, o.body))
         ELSE Returns(Val(200, JList(<<o.body>>)))
    ELSE Returns(Val(o.st, JNull))

\* number of GET requests one execution of the function body issues
GetsPorChamada == 1

(***************************************************************************)
(* Inputs: what the remote service may answer, what the user may paste     *)
(***************************************************************************)
D(code, codigo, description, descricao) ==
    [code |-> code, codigo |-> codigo, description |-> description,
     descricao |-> descricao, chaves |-> TRUE]

\* objects with the field variants the service uses
ItemAD == JDict(D(NcmA, <<>>, Desc, <<>>))
ItemAltAD == JDict(D(<<>>, PadA, <<>>, Desc))
ItemBD == JDict(D(NcmB, <<>>, Desc, <<>>))
ItemA == JDict(D(NcmA, <<>>, <<>>, <<>>))
ItemD == JDict(D(<<" ">>, NcmA, Desc, <<>>))
ItemB == JDict(D(NcmB, NcmA, <<" ">>, Desc))
\* an object with none of the four fields, and the empty object
ItemOutro == JDict(D(<<>>, <<>>, <<>>, <<>>))
ItemVazio == JDict(NoDict)

Items == {ItemAD, ItemAltAD, ItemBD, ItemA, ItemD, ItemB}
Elements == Items \cup {JScalar}

SeqsUpTo(S, n) == UNION {[1..k -> S] : k \in 0..n}

Bodies ==
    {JNull, JScalar, ItemOutro, ItemVazio} \cup Items
        \cup {JList(q) : q \in SeqsUpTo(Elements, MaxList)}

HttpStatuses == {200, 400, 404, 422, 429, 503}

Outcomes(bodies) ==
    {Resp(200, b) : b \in bodies}
        \cup {Resp(st, JNull) : st \in HttpStatuses \ {200}}
        \cup {Exc(c) : c \in RequestExceptions \cup OtherExceptions}

OutcomesAll == Outcomes(Bodies)

\* the answers used when whole batches and the cache are explored
BatchBodies == {ItemAD, ItemA, JList(<<ItemBD>>), JList(<<JScalar>>), JList(<<>>)}
BatchStatuses == {200, 404, 503}
OutcomesBatch ==
    {o \in Outcomes(BatchBodies) : o.tipo = "resp" => o.st \in BatchStatuses}

Curto == SubSeq(NcmA, 1, 4)

\* candidates given directly to buscar_ncm
Candidatos ==
    {<<>>, NcmA, NcmB, Curto, SubSeq(NcmA, 1, 7), NcmA \o <<"0">>,
     [NcmA EXCEPT ![8] = "x"], PadA}

\* pieces of the pasted text
Tokens == {NcmA, NcmB, Curto, <<",">>, <<"\n">>}

RECURSIVE Flatten(_)
Flatten(q) == IF q = <<>> THEN <<>> ELSE Head(q) \o Flatten(Tail(q))

RawInputs == {Flatten(q) : q \in SeqsUpTo(Tokens, MaxTokens)}

\* the texts and answers used when repeated runs and the caches are explored
RawInputsCache == {<<>>, NcmA, NcmA \o <<",">> \o NcmA}
OutcomesCache ==
    {Resp(200, ItemAD), Resp(404, JNull), Resp(503, JNull), Exc("ConnectionError"),
     Exc("ValueError")}

\* the characters typed one by one: two digits, the six delimiters and a
\* white-space character that is not a delimiter
TextChars == {"1", "2", ",", ";", "\n", "\r", "\t", " ", "\f"}
RawTexts == SeqsUpTo(TextChars, MaxChars)

Delays == {0, DelayMax}
WaitStep == TTL \div 2

(***************************************************************************)
(* Result table (lines 330-344).  A table is its set of column labels and  *)
(* its rows, each row a function from the labels to the values.            *)
(***************************************************************************)
\* code point of a character of the model's alphabet (str comparison)
CodePoint(c) ==
    CASE c = "\t" -> 9
      [] c = "\n" -> 10
      [] c = "\f" -> 12
      [] c = "\r" -> 13
      [] c = " " -> 32
      [] c = "," -> 44
      [] c \in Digits -> 48 + (CHOOSE d \in 0..9 : DigitChar(d) = c)
      [] c = ";" -> 59
      [] OTHER -> 120

\* a < b on Python strings
RECURSIVE LexLess(_, _)
LexLess(a, b) ==
    IF b = <<>> THEN FALSE
    ELSE IF a = <<>> THEN TRUE
    ELSE IF Head(a) = Head(b) THEN LexLess(Tail(a), Tail(b))
    ELSE CodePoint(Head(a)) < CodePoint(Head(b))

\* df["status"].map(status_ordem).fillna(9)
status_ordem(st) ==
    CASE st = "ok" -> 0
      [] st = "not_found" -> 1
      [] st = "invalid" -> 2
      [] st = "error" -> 3
      [] OTHER -> 9

\* the order of sort_values(["status_ord", "input_code"])
RowBefore(r1, r2) ==
    \/ status_ordem(r1.status) < status_ordem(r2.status)
    \/ /\ status_ordem(r1.status) = status_ordem(r2.status)
       /\ LexLess(r1.input_code, r2.input_code)

RECURSIVE InsertRow(_, _)
InsertRow(rows, r) ==
    IF rows = <<>> THEN <<r>>
    ELSE IF RowBefore(r, Head(rows)) THEN <<r>> \o rows
    ELSE <<Head(rows)>> \o InsertRow(Tail(rows), r)

RECURSIVE SortRows(_)
SortRows(rows) ==
    IF rows = <<>> THEN <<>>
    ELSE InsertRow(SortRows(SubSeq(rows, 1, Len(rows) - 1)), rows[Len(rows)])

\* pd.DataFrame(resultados): the columns are the keys of the records
DataFrame(rs) ==
    [cols |-> UNION {DOMAIN rs[i] : i \in 1..Len(rs)}, rows |-> rs]

sort_values(t) == [cols |-> t.cols, rows |-> SortRows(t.rows)]

\* the columns= argument of df.rename
RenameMap ==
    [input_code |-> "NCM (input)", code |-> "NCM (retorno)",
     description |-> "Descricao", source |-> "Fonte", status |-> "Status",
     detail |-> "Detalhe"]

NewLabel(m, c) == IF c \in DOMAIN m THEN m[c] ELSE c
OldLabel(m, cols, n) == CHOOSE c \in cols : NewLabel(m, c) = n

\* df.rename(columns=m): a new table, the table renamed is left as it was
rename(t, m) ==
    LET novas == {NewLabel(m, c) : c \in t.cols}
    IN  [cols |-> novas,
         rows |-> [i \in 1..Len(t.rows) |->
                      [n \in novas |-> t.rows[i][OldLabel(m, t.cols, n)]]]]

\* the column read under "Resumo": df['Status']
ColunaResumo == "Status"

HasColumn(t, name) == name \in t.cols

\* (t[name] == v).sum()
CountEq(t, name, v) == Cardinality({i \in 1..Len(t.rows) : t.rows[i][name] = v})

KeyError == [classe |-> "KeyError", origem |-> "Resumo"]

(***************************************************************************)
(* State                                                                   *)
(***************************************************************************)
VARIABLES
    pc,               \* position of the script: "idle", "loop", "exato", "busca",
                      \* "fim" (loop finished), "exportado" (script finished),
                      \* "stopped" (st.stop()), "crashed"
    codigos,          \* the normalized candidates of the run
    idx,              \* candidates processed so far (i of the enumerate)
    resultados,       \* the result records
    erros, nao_encontrados, invalidos,
    delay,            \* the "Delay entre chamadas" setting of the run
    now,              \* clock, in seconds
    cacheExato,       \* st.cache_data of consultar_ncm_exato: key -> [val, t]
    cacheBusca,       \* st.cache_data of consultar_ncm_busca: key -> [val, t]
    obtido,           \* history: per lookup and key, the value its body last returned
                      \* and when
    reg,              \* calls of the remote client in the current resolution
    trilhas,          \* reg of every processed candidate, parallel to resultados
    excecao,          \* the exception that ended the run, if any
    runs, waits,      \* presses of the button, waits between presses
    ncms_raw,         \* the text of the text area when the button was pressed
    df, df_show,      \* the result table and the table shown and exported
    resumo            \* the four counts written under "Resumo"

vars == <<pc, codigos, idx, resultados, erros, nao_encontrados, invalidos, delay, now,
          cacheExato, cacheBusca, obtido, reg, trilhas, excecao, runs, waits,
          ncms_raw, df, df_show, resumo>>

cacheVars == <<cacheExato, cacheBusca, obtido>>
telaVars == <<ncms_raw, df, df_show, resumo>>

NoTable == [cols |-> {}, rows |-> <<>>]
NoResumo == [escrito |-> FALSE, ok |-> 0, not_found |-> 0, invalid |-> 0, error |-> 0]

EmptyCache == [k \in {} |-> 0]

\* a cache whose entries live three minutes instead of thirty
FreshTresMinutos(cache, k, t) == k \in DOMAIN cache /\ t < cache[k].t + 60 * 3

\* the entry st.cache_data holds for key k is used while its age is below the ttl
Fresh(cache, k, t) == k \in DOMAIN cache /\ t < cache[k].t + TTL

CachePut(cache, k, v, t) == [x \in DOMAIN cache \cup {k} |->
                                IF x = k THEN [val |-> v, t |-> t] ELSE cache[x]]

Chamada(op, key, hit, gets, v, ok) ==
    [op |-> op, key |-> key, hit |-> hit, gets |-> gets, st |-> v.st, data |-> v.data,
     ok |-> ok]

Candidato == codigos[idx + 1]

Init ==
    /\ pc = "idle"
    /\ codigos = <<>>
    /\ idx = 0
    /\ resultados = <<>>
    /\ erros = 0 /\ nao_encontrados = 0 /\ invalidos = 0
    /\ delay = 0
    /\ now = 0
    /\ cacheExato = EmptyCache
    /\ cacheBusca = EmptyCache
    /\ obtido = [exato |-> EmptyCache, busca |-> EmptyCache]
    /\ reg = <<>>
    /\ trilhas = <<>>
    /\ excecao = NoExc
    /\ runs = 0 /\ waits = 0
    /\ ncms_raw = <<>>
    /\ df = NoTable /\ df_show = NoTable
    /\ resumo = NoResumo

(***************************************************************************)
(* The script: if executar: ... (lines 301-328)                            *)
(***************************************************************************)
\* the button is pressed with the text raw and the delay d: a new run of the
\* script (lines 301-313); the caches survive from one run to the next
Executar(raws) ==
    /\ pc \in {"idle", "fim", "stopped", "crashed", "exportado"}
    /\ runs < MaxRuns
    /\ \E raw \in raws, d \in Delays :
          /\ ncms_raw' = raw
          /\ codigos' = limpar_lista_codigos(raw)
          /\ delay' = d
          /\ pc' = IF codigos' = <<>> THEN "stopped" ELSE "loop"
    /\ idx' = 0
    /\ resultados' = <<>>
    /\ erros' = 0 /\ nao_encontrados' = 0 /\ invalidos' = 0
    /\ reg' = <<>>
    /\ trilhas' = <<>>
    /\ excecao' = NoExc
    /\ runs' = runs + 1
    /\ df' = NoTable /\ df_show' = NoTable
    /\ resumo' = NoResumo
    /\ UNCHANGED <<now, cacheExato, cacheBusca, obtido, waits>>

\* time passes between two presses of the button
Esperar ==
    /\ pc \in {"idle", "fim", "stopped", "crashed", "exportado"}
    /\ waits < MaxWaits
    /\ now' = now + WaitStep
    /\ waits' = waits + 1
    /\ UNCHANGED <<pc, codigos, idx, resultados, erros, nao_encontrados, invalidos, delay,
                   cacheExato, cacheBusca, obtido, reg, trilhas, excecao, runs>>
    /\ UNCHANGED telaVars

\* the record put in front of the list instead of at its end
PrependResult(rs, res) == <<res>> \o rs

\* resultados.append(res)
AppendResult(rs, res) == Append(rs, res)

\* buscar_ncm returned res: the rest of the loop body (lines 317-328)
Concluir(res, r) ==
    /\ resultados' = AppendResult(resultados, res)
    /\ erros' = IF res.status = "error" THEN erros + 1 ELSE erros
    /\ nao_encontrados' = IF res.status = "not_found" THEN nao_encontrados + 1
                          ELSE nao_encontrados
    /\ invalidos' = IF res.status = "invalid" THEN invalidos + 1 ELSE invalidos
    /\ idx' = idx + 1
    /\ reg' = r
    /\ trilhas' = Append(trilhas, r)
    /\ now' = now + delay
    /\ pc' = "loop"
    /\ UNCHANGED <<codigos, delay, excecao, runs, waits>>
    /\ UNCHANGED telaVars

\* an exception leaves buscar_ncm and ends the script run
Abortar(e, r) ==
    /\ pc' = "crashed"
    /\ excecao' = e
    /\ reg' = r
    /\ UNCHANGED <<codigos, idx, resultados, erros, nao_encontrados, invalidos, delay, now,
                   trilhas, runs, waits>>
    /\ UNCHANGED telaVars

\* lines 169-178: the next candidate enters buscar_ncm and is validated
Validar ==
    /\ pc = "loop"
    /\ idx < Len(codigos)
    /\ LET v == validar_ncm(Candidato)
       IN  IF ~v.ok
           THEN /\ Concluir(RecInvalido(Candidato, v.motivo), <<>>)
                /\ UNCHANGED cacheVars
           ELSE /\ pc' = "exato"
                /\ reg' = <<>>
                /\ UNCHANGED <<codigos, idx, resultados, erros, nao_encontrados,
                               invalidos, delay, now, cacheExato, cacheBusca, obtido,
                               trilhas, excecao, runs, waits>>
                /\ UNCHANGED telaVars

\* the for loop is exhausted
FimLoop ==
    /\ pc = "loop"
    /\ idx = Len(codigos)
    /\ pc' = "fim"
    /\ UNCHANGED <<codigos, idx, resultados, erros, nao_encontrados, invalidos, delay, now,
                   cacheExato, cacheBusca, obtido, reg, trilhas, excecao, runs, waits>>
    /\ UNCHANGED telaVars

\* lines 330-377: the table is built, sorted, renamed and shown, the four
\* counts are read from the column ColunaResumo of df, the files are exported
Apresentar ==
    /\ pc = "fim"
    /\ LET t == sort_values(DataFrame(resultados))
       IN  /\ df' = t
           /\ df_show' = rename(t, RenameMap)
           /\ IF HasColumn(t, ColunaResumo)
              THEN /\ resumo' = [escrito |-> TRUE,
                                 ok |-> CountEq(t, ColunaResumo, "ok"),
                                 not_found |-> CountEq(t, ColunaResumo, "not_found"),
                                 invalid |-> CountEq(t, ColunaResumo, "invalid"),
                                 error |-> CountEq(t, ColunaResumo, "error")]
                   /\ pc' = "exportado"
                   /\ UNCHANGED excecao
              ELSE /\ pc' = "crashed"
                   /\ excecao' = KeyError
                   /\ UNCHANGED resumo
    /\ UNCHANGED <<codigos, idx, resultados, erros, nao_encontrados, invalidos, delay, now,
                   cacheExato, cacheBusca, obtido, reg, trilhas, runs, waits, ncms_raw>>

\* what buscar_ncm does with the value of the exact lookup
AposExato(v, r) ==
    LET e == EstagioExato(Candidato, v.st, v.data)
    IN  CASE e.tag = "ret" -> Concluir(e.rec, r)
          [] e.tag = "raise" -> Abortar(e.exc, r)
          [] e.tag = "next" ->
                /\ pc' = "busca"
                /\ reg' = r
                /\ UNCHANGED <<codigos, idx, resultados, erros, nao_encontrados,
                               invalidos, delay, now, trilhas, excecao, runs, waits>>
                /\ UNCHANGED telaVars

\* what buscar_ncm does with the value of the search lookup
AposBusca(v, r) ==
    LET e == EstagioBusca(Candidato, v.st, v.data)
    IN  CASE e.tag = "ret" -> Concluir(e.rec, r)
          [] e.tag = "raise" -> Abortar(e.exc, r)

\* consultar_ncm_exato(code) answered from the cache
ExatoHit ==
    /\ pc = "exato"
    /\ Fresh(cacheExato, Candidato, now)
    /\ LET v == cacheExato[Candidato].val
       IN  AposExato(v, Append(reg, Chamada("exato", Candidato, TRUE, 0, v, TRUE)))
    /\ UNCHANGED cacheVars

\* consultar_ncm_exato(code) runs its body: one GET, whose outcome is in os
ExatoMiss(os) ==
    /\ pc = "exato"
    /\ ~Fresh(cacheExato, Candidato, now)
    /\ \E o \in os :
          LET c == consultar_ncm_exato(o)
          IN  IF c.tag = "raise"
              THEN /\ Abortar(c.exc, Append(reg, Chamada("exato", Candidato, FALSE,
                                                        GetsPorChamada, c.val, FALSE)))
                   /\ UNCHANGED cacheVars
              ELSE /\ cacheExato' = CachePut(cacheExato, Candidato, c.val, now)
                   /\ obtido' = [obtido EXCEPT !.exato =
                                     (Candidato :> [val |-> c.val, t |-> now]) @@ @]
                   /\ AposExato(c.val, Append(reg, Chamada("exato", Candidato, FALSE,
                                                          GetsPorChamada, c.val, TRUE)))
                   /\ UNCHANGED cacheBusca

\* consultar_ncm_busca(code) answered from the cache
BuscaHit ==
    /\ pc = "busca"
    /\ Fresh(cacheBusca, Candidato, now)
    /\ LET v == cacheBusca[Candidato].val
       IN  AposBusca(v, Append(reg, Chamada("busca", Candidato, TRUE, 0, v, TRUE)))
    /\ UNCHANGED cacheVars

\* consultar_ncm_busca(code) runs its body: one GET, whose outcome is in os
BuscaMiss(os) ==
    /\ pc = "busca"
    /\ ~Fresh(cacheBusca, Candidato, now)
    /\ \E o \in os :
          LET c == consultar_ncm_busca(o)
          IN  IF c.tag = "raise"
              THEN /\ Abortar(c.exc, Append(reg, Chamada("busca", Candidato, FALSE,
                                                        GetsPorChamada, c.val, FALSE)))
                   /\ UNCHANGED cacheVars
              ELSE /\ cacheBusca' = CachePut(cacheBusca, Candidato, c.val, now)
                   /\ obtido' = [obtido EXCEPT !.busca =
                                     (Candidato :> [val |-> c.val, t |-> now]) @@ @]
                   /\ AposBusca(c.val, Append(reg, Chamada("busca", Candidato, FALSE,
                                                          GetsPorChamada, c.val, TRUE)))
                   /\ UNCHANGED cacheExato

(***************************************************************************)
(* Spec: the first run of the script after the server started, over every  *)
(* pasted text                                                             *)
(***************************************************************************)
PrimeiraExecucao == runs = 0 /\ Executar(RawInputs)
ExatoFetch == ExatoMiss(OutcomesBatch)
BuscaFetch == BuscaMiss(OutcomesBatch)

Next ==
    \/ PrimeiraExecucao
    \/ Validar
    \/ FimLoop
    \/ Apresentar
    \/ ExatoFetch
    \/ BuscaFetch

Spec == Init /\ [][Next]_vars

(***************************************************************************)
(* SpecCache: the button pressed again and again while time passes, the    *)
(* caches of the two lookups surviving between the runs                    *)
(***************************************************************************)
ExecutarDeNovo == Executar(RawInputsCache)
ExatoFetchCache == ExatoMiss(OutcomesCache)
BuscaFetchCache == BuscaMiss(OutcomesCache)

NextCache ==
    \/ ExecutarDeNovo
    \/ Esperar
    \/ Validar
    \/ FimLoop
    \/ Apresentar
    \/ ExatoHit
    \/ ExatoFetchCache
    \/ BuscaHit
    \/ BuscaFetchCache

SpecCache == Init /\ [][NextCache]_vars

(***************************************************************************)
(* buscar_ncm called on one candidate, over every answer of the service    *)
(***************************************************************************)
InitResolve ==
    /\ pc = "loop"
    /\ codigos \in {<<c>> : c \in Candidatos}
    /\ idx = 0
    /\ resultados = <<>>
    /\ erros = 0 /\ nao_encontrados = 0 /\ invalidos = 0
    /\ delay = 0
    /\ now = 0
    /\ cacheExato = EmptyCache
    /\ cacheBusca = EmptyCache
    /\ obtido = [exato |-> EmptyCache, busca |-> EmptyCache]
    /\ reg = <<>>
    /\ trilhas = <<>>
    /\ excecao = NoExc
    /\ runs = 1 /\ waits = 0
    /\ ncms_raw = <<>>
    /\ df = NoTable /\ df_show = NoTable
    /\ resumo = NoResumo

ExatoFetchAll == ExatoMiss(OutcomesAll)
BuscaFetchAll == BuscaMiss(OutcomesAll)

NextResolve ==
    \/ Validar
    \/ FimLoop
    \/ ExatoFetchAll
    \/ BuscaFetchAll

SpecResolve == InitResolve /\ [][NextResolve]_vars

(***************************************************************************)
(* SpecNormalize: limpar_lista_codigos applied, at the press of the button, *)
(* to every text of at most MaxChars characters                            *)
(***************************************************************************)
ExecutarTexto == runs = 0 /\ Executar(RawTexts)

NextNormalize == ExecutarTexto

SpecNormalize == Init /\ [][NextNormalize]_vars

(***************************************************************************)
(* Properties                                                              *)
(***************************************************************************)
TransientStatuses == {429, 500, 502, 503, 504}

OitoDigitos(c) == Len(c) = 8 /\ \A i \in 1..Len(c) : c[i] \in Digits

StatusDeRegistro == {"ok", "not_found", "invalid", "error"}

Processados == 1..Len(resultados)

Ultima(q) == q[Len(q)]

\* every call of the remote client recorded so far: those of the processed
\* candidates and those of the resolution in progress
TodasChamadas ==
    Range(reg) \cup UNION {Range(trilhas[i]) : i \in 1..Len(trilhas)}

\* C1: a candidate that is empty or is not exactly 8 decimal digits gets a
\* record with status invalid whose detail is the validator's reason, and no
\* exact or search lookup is ever issued for it.
InvalidNeverReachesRemote ==
    /\ \A i \in Processados :
          ~OitoDigitos(codigos[i]) =>
              /\ resultados[i].status = "invalid"
              /\ resultados[i].detail =
                    (IF codigos[i] = <<>> THEN MotivoVazio ELSE MotivoFormato)
              /\ trilhas[i] = <<>>
    /\ pc \in {"exato", "busca", "crashed"} => OitoDigitos(Candidato)
    /\ \A c \in TodasChamadas : OitoDigitos(c.key)

\* Scenario B: "1234" was resolved to an invalid record without any call
InvalidResolved ==
    \E i \in Processados :
        /\ codigos[i] = Curto
        /\ resultados[i].status = "invalid"
        /\ trilhas[i] = <<>>

\* C2: at every point of the loop the results are the records of the
\* processed prefix of the candidates, in order; when the loop has finished
\* there is exactly one record per candidate, position by position.
BatchOrderMatched ==
    /\ Len(resultados) = idx
    /\ idx <= Len(codigos)
    /\ \A i \in Processados : resultados[i].input_code = codigos[i]
    /\ pc = "fim" => Len(resultados) = Len(codigos)

\* a finished loop over two candidates, the first invalid, the second found
BatchOfTwoFinished ==
    /\ pc = "fim"
    /\ Len(resultados) = 2
    /\ resultados[1].status = "invalid"
    /\ resultados[2].status = "ok"

\* C3: whatever the two endpoints answer (any status, any payload shape),
\* buscar_ncm ends by returning a record whose status is one of the four, and
\* never by raising: once the client has handed its values over, the run is
\* not ended by an exception.
ResolverNeverRaises ==
    /\ \A i \in Processados : resultados[i].status \in StatusDeRegistro
    /\ (\A i \in 1..Len(reg) : reg[i].ok) => pc # "crashed"

\* C4: no exception of the network call, whatever its class, leaves
\* consultar_ncm_exato or consultar_ncm_busca: every call of the client returns.
ClientNeverRaises ==
    /\ \A c \in TodasChamadas : c.ok
    /\ excecao.origem \notin {"consultar_ncm_exato", "consultar_ncm_busca"}

\* C5: the batch always completes: a run that has begun its loop never ends
\* before the last candidate has been processed.
BatchAlwaysCompletes ==
    pc \in {"fim", "crashed"} => idx = Len(codigos)

\* C6: a transient failure status (429, 500, 502, 503, 504) is handed to the
\* caller only when it persisted through 3 attempts of the GET within the
\* same logical call.
TransientOnlyAfterRetries ==
    \A c \in TodasChamadas :
        (c.ok /\ ~c.hit /\ c.st \in TransientStatuses) => c.gets = 3

UnexpectedExactStatusIsError ==
    /\ \A i \in Processados :
          (trilhas[i] # <<>> /\ trilhas[i][1].st \notin {200, 404, 422, 0}) =>
              /\ trilhas[i][1].op = "exato"
              /\ Len(trilhas[i]) = 1
              /\ resultados[i].status = "error"
              /\ Contains(resultados[i].detail, ToStr(trilhas[i][1].st))
              /\ resultados[i].source = ExactUrl(codigos[i])
    /\ (reg # <<>> /\ reg[1].st \notin {200, 404, 422, 0}) =>
          /\ Len(reg) = 1
          /\ pc \notin {"busca", "crashed"}

\* Scenario D: the exact endpoint answered 503 and the record is an error
Exact503Resolved ==
    \E i \in Processados :
        /\ trilhas[i] # <<>>
        /\ trilhas[i][1].st = 503
        /\ resultados[i].status = "error"

\* the positions of the items of a list whose extracted code is the candidate
Matches(items, cand) ==
    {j \in 1..Len(items) :
        items[j].kind = "dict" /\ extrair_desc_item(items[j]).c = cand}

Min(S) == CHOOSE x \in S : \A y \in S : x <= y

\* C9: in the search stage, when some item of a non-empty result list has
\* the candidate as extracted code, the record is built from the first such
\* item and its detail does not flag a fallback; only when no item matches is
\* it built from the first item, with the fallback detail.  In both cases the
\* provenance is the search URL and the status is ok exactly when the chosen
\* item's description is non-empty, else not_found.
SearchExactMatchWins ==
    /\ \A i \in Processados :
          LET t == trilhas[i]
          IN  (t # <<>> /\ Ultima(t).op = "busca" /\ Ultima(t).st = 200
                  /\ Ultima(t).data.items # <<>>) =>
              LET items == Ultima(t).data.items
                  cand == codigos[i]
                  M == Matches(items, cand)
                  chosen == IF M # {} THEN items[Min(M)] ELSE items[1]
                  r == resultados[i]
              IN  /\ r.input_code = cand
                  /\ r.description = extrair_desc_item(chosen).d
                  /\ r.code = Or(extrair_desc_item(chosen).c, cand)
                  /\ r.source = SearchUrl(cand)
                  /\ r.status = (IF r.description # <<>> THEN "ok" ELSE "not_found")
                  /\ M # {} => r.detail # DetPrimeiro
                  /\ M = {} => r.detail = DetPrimeiro
    /\ (pc = "crashed" /\ reg # <<>> /\ Ultima(reg).op = "busca" /\ Ultima(reg).ok) =>
          \E j \in 1..Len(Ultima(reg).data.items) :
              Ultima(reg).data.items[j].kind # "dict"

\* the search answered a list whose second item is the match: the record is
\* built from it, with an empty detail
SecondItemMatched ==
    \E i \in Processados :
        /\ codigos[i] = NcmA
        /\ Len(trilhas[i]) = 2
        /\ trilhas[i][2].data.items = <<ItemBD, ItemAD>>
        /\ resultados[i].detail = <<>>
        /\ resultados[i].status = "ok"

\* C10: a record has status not_found only when at least one of the lookups
\* issued for its candidate received a response from the service (a status
\* other than the transport-failure sentinel 0).
NotFoundOnlyAfterResponse ==
    \A i \in Processados :
        resultados[i].status = "not_found" =>
            \E j \in 1..Len(trilhas[i]) : trilhas[i][j].st # 0

\* the six delimiters of the pasted text
Separadores == {",", ";", "\n", "\r", "\t", " "}

\* the positions of the text where a maximal run of non-delimiters begins
Inicios(raw) ==
    {i \in 1..Len(raw) : raw[i] \notin Separadores /\ (i = 1 \/ raw[i - 1] \in Separadores)}

\* the trimmed piece of the text that begins at position i
Pedaco(raw, i) ==
    LET fim == Min({j \in i..Len(raw) : j = Len(raw) \/ raw[j + 1] \in Separadores})
    IN  Strip(SubSeq(raw, i, fim))

\* C11: the list the Normalizer returns has no duplicate and no empty
\* element, holds exactly the non-empty trimmed pieces between the delimiters
\* (comma, semicolon, newline, carriage return, tab, space), in the order of
\* their first occurrence in the text; a text that is empty or made of
\* delimiters and white space only gives the empty list.
NormalizedFirstOccurrences ==
    runs > 0 =>
        LET raw == ncms_raw
            V == {i \in Inicios(raw) : Pedaco(raw, i) # <<>>}
            Primeiro(x) == Min({i \in V : Pedaco(raw, i) = x})
        IN  /\ \A a, b \in 1..Len(codigos) : a # b => codigos[a] # codigos[b]
            /\ \A a \in 1..Len(codigos) : codigos[a] # <<>>
            /\ Range(codigos) = {Pedaco(raw, i) : i \in V}
            /\ \A a, b \in 1..Len(codigos) :
                  a < b => Primeiro(codigos[a]) < Primeiro(codigos[b])
            /\ (\A k \in 1..Len(raw) : raw[k] \in Separadores \cup Whitespace) =>
                  codigos = <<>>

\* a text with the same candidate twice, around another one, was normalised
\* to two candidates, the repeated one first
RepeatedCandidateNormalized ==
    /\ runs > 0
    /\ Len(codigos) = 2
    /\ \E i, j, k \in Inicios(ncms_raw) :
          /\ i < j /\ j < k
          /\ Pedaco(ncms_raw, i) = codigos[1]
          /\ Pedaco(ncms_raw, j) = codigos[2]
          /\ Pedaco(ncms_raw, k) = codigos[1]

\* C12: once the loop has finished, no step up to the export fails, and the
\* four counts written under "Resumo" are the numbers of records of each
\* status, whose sum is the number of candidates.
SummaryPartitionsRecords ==
    /\ pc = "crashed" => idx < Len(codigos)
    /\ resumo.escrito =>
          /\ \A st \in StatusDeRegistro :
                resumo[st] = Cardinality({i \in Processados : resultados[i].status = st})
          /\ resumo.ok + resumo.not_found + resumo.invalid + resumo.error = Len(codigos)

\* every item of the list is an object
SoObjetos(items) == \A j \in 1..Len(items) : items[j].kind = "dict"

\* the answer e of the exact lookup gives no record for cand: 404, 422, the
\* transport failure, or 200 with null, an empty object, or a list of objects
\* none of which has cand as its code
SemRegistroExato(e, cand) ==
    \/ e.st \in {404, 422, 0}
    \/ /\ e.st = 200
       /\ \/ e.data.kind = "null"
          \/ e.data.kind = "dict" /\ ~e.data.d.chaves
          \/ /\ e.data.kind = "list"
             /\ SoObjetos(e.data.items)
             /\ Matches(e.data.items, cand) = {}

\* the answer b of the search lookup gives no record: 404, the transport
\* failure, or 200 with an empty list
SemRegistroBusca(b) ==
    \/ b.st \in {404, 0}
    \/ b.st = 200 /\ b.data.kind = "list" /\ b.data.items = <<>>

\* C13: for a valid candidate, when the exact lookup gave no record (404,
\* 422, 0, or 200 with an absent or empty payload or a list of objects without
\* a matching item) the search lookup is called, and when the search gave no
\* record either (404, 0, or 200 with an empty list) the record returned has
\* status not_found, the candidate as resolved code, an empty description and
\* an empty provenance.
FinalNotFoundRule ==
    /\ \A i \in Processados :
          LET t == trilhas[i]
              cand == codigos[i]
          IN  (t # <<>> /\ SemRegistroExato(t[1], cand)) =>
                  /\ Len(t) = 2
                  /\ t[2].op = "busca"
                  /\ SemRegistroBusca(t[2]) =>
                        /\ resultados[i].input_code = cand
                        /\ resultados[i].code = cand
                        /\ resultados[i].description = <<>>
                        /\ resultados[i].source = <<>>
                        /\ resultados[i].status = "not_found"
    /\ (Len(reg) = 1 /\ reg[1].ok /\ SemRegistroExato(reg[1], reg[1].key)) => pc = "busca"
    /\ (Len(reg) = 2 /\ reg[2].ok /\ SemRegistroExato(reg[1], reg[1].key)
           /\ SemRegistroBusca(reg[2])) => pc # "crashed"

\* Scenario C: the exact endpoint answered 404, the search an empty list, and
\* the record is the final not_found one
ScenarioCNotFound ==
    \E i \in Processados :
        /\ Len(trilhas[i]) = 2
        /\ trilhas[i][1].st = 404
        /\ trilhas[i][2].st = 200
        /\ trilhas[i][2].data.items = <<>>
        /\ resultados[i].status = "not_found"
        /\ resultados[i].code = codigos[i]
        /\ resultados[i].source = <<>>

\* C14: a 422 of the exact endpoint gives no error record, the search lookup
\* is called next; a 422 of the search endpoint gives a record with status
\* error whose detail names 422 and whose provenance is the search URL.
Status422Asymmetry ==
    /\ \A i \in Processados :
          LET t == trilhas[i]
          IN  /\ (t # <<>> /\ t[1].st = 422) =>
                    /\ Len(t) = 2
                    /\ t[2].op = "busca"
              /\ (Len(t) = 2 /\ t[2].st = 422) =>
                    /\ resultados[i].status = "error"
                    /\ Contains(resultados[i].detail, ToStr(422))
                    /\ resultados[i].source = SearchUrl(codigos[i])
    /\ (Len(reg) = 1 /\ reg[1].st = 422) => pc = "busca"
    /\ (Len(reg) = 2 /\ reg[2].st = 422) => pc # "crashed"

\* both endpoints answered 422: the search was called and the record is the
\* search stage's error
Both422Resolved ==
    \E i \in Processados :
        /\ Len(trilhas[i]) = 2
        /\ trilhas[i][1].st = 422
        /\ trilhas[i][2].st = 422
        /\ resultados[i].status = "error"

\* C15: when the exact lookup answers 200 with a list, a record whose
\* provenance is the exact URL is built only from the first item whose code is
\* the candidate; when no item of a list of objects matches, no record comes
\* from that list and the search lookup is called.
ExactListNeverPositional ==
    /\ \A i \in Processados :
          LET t == trilhas[i]
              cand == codigos[i]
          IN  (t # <<>> /\ t[1].st = 200 /\ t[1].data.kind = "list") =>
              LET items == t[1].data.items
                  M == Matches(items, cand)
                  r == resultados[i]
              IN  /\ r.source = ExactUrl(cand) =>
                        /\ M # {}
                        /\ Len(t) = 1
                        /\ r.code = cand
                        /\ r.description = extrair_desc_item(items[Min(M)]).d
                  /\ M = {} =>
                        /\ Len(t) = 2
                        /\ t[2].op = "busca"
                        /\ r.source # ExactUrl(cand)
    /\ (Len(reg) = 1 /\ reg[1].ok /\ reg[1].st = 200 /\ reg[1].data.kind = "list"
           /\ SoObjetos(reg[1].data.items)
           /\ Matches(reg[1].data.items, reg[1].key) = {}) => pc = "busca"

\* the exact endpoint answered a non-empty list of objects without a match:
\* the search was called and the record does not come from the exact stage
ExactListWithoutMatchWentOn ==
    \E i \in Processados :
        /\ Len(trilhas[i]) = 2
        /\ trilhas[i][1].st = 200
        /\ trilhas[i][1].data.kind = "list"
        /\ trilhas[i][1].data.items # <<>>
        /\ Matches(trilhas[i][1].data.items, codigos[i]) = {}
        /\ resultados[i].source # ExactUrl(codigos[i])

\* the answer e of the exact lookup ends the resolution of cand with a record
TerminalExato(e, cand) ==
    \/ e.st \notin {200, 404, 422, 0}
    \/ /\ e.st = 200
       /\ \/ e.data.kind = "dict" /\ e.data.d.chaves
          \/ e.data.kind = "list" /\ Matches(e.data.items, cand) # {}

\* C16: every resolution of a valid candidate calls the exact lookup once,
\* first, and the search lookup at most once, after it and only when the exact
\* answer gave no terminal record (a 200 with a non-empty object ends the
\* resolution, with or without a description); the calls made are those of the
\* candidates in the order of the list, all calls of a candidate before any
\* call of the next, and no candidate is resolved twice.
CallsOrderedAndCounted ==
    /\ Len(trilhas) = idx
    /\ Len(resultados) = idx
    /\ \A i, j \in 1..Len(codigos) : i # j => codigos[i] # codigos[j]
    /\ \A i \in Processados :
          LET t == trilhas[i]
              cand == codigos[i]
          IN  IF OitoDigitos(cand)
              THEN /\ Len(t) \in {1, 2}
                   /\ t[1].op = "exato"
                   /\ \A j \in 1..Len(t) : t[j].key = cand /\ t[j].ok
                   /\ TerminalExato(t[1], cand) => Len(t) = 1
                   /\ Len(t) = 2 => t[2].op = "busca"
              ELSE t = <<>>
    /\ pc = "exato" => reg = <<>>
    /\ pc = "busca" =>
          /\ Len(reg) = 1
          /\ reg[1].op = "exato"
          /\ ~TerminalExato(reg[1], Candidato)
    /\ (pc \in {"exato", "busca"} \/ (pc = "crashed" /\ idx < Len(codigos))) =>
          /\ Len(reg) <= 2
          /\ \A j \in 1..Len(reg) : reg[j].key = Candidato
          /\ Len(reg) = 2 => reg[1].op = "exato" /\ reg[2].op = "busca"

\* two valid candidates resolved in turn: the first by an exact answer holding
\* an object without description, with no search call, the second after a
\* search call
TwoResolvedInTurn ==
    /\ Len(resultados) = 2
    /\ OitoDigitos(codigos[1]) /\ OitoDigitos(codigos[2])
    /\ Len(trilhas[1]) = 1
    /\ trilhas[1][1].data = ItemA
    /\ resultados[1].status = "not_found"
    /\ Len(trilhas[2]) = 2

\* the record was built from the single object the exact endpoint answered
DeObjetoExato(t) == Len(t) = 1 /\ t[1].st = 200 /\ t[1].data.kind = "dict"

\* C17 as stated: a record built from a remote payload whose resolved code
\* differs from the candidate has the fallback detail, and a record whose
\* detail is empty has the candidate as resolved code.
FallbackAlwaysFlagged ==
    \A i \in Processados :
        LET r == resultados[i]
        IN  (trilhas[i] # <<>> /\ r.status \in {"ok", "not_found"} /\ r.source # <<>>) =>
                /\ r.code # codigos[i] => r.detail = DetPrimeiro
                /\ r.detail = <<>> => r.code = codigos[i]

\* C17 amended: a record built from an item of a list (the exact stage's
\* list or the search results) whose resolved code differs from the candidate
\* has the fallback detail, and such a record with an empty detail has the
\* candidate as resolved code; the record built from the single object of the
\* exact endpoint carries the code of that object, compared with nothing.
FallbackFlaggedOutsideExactObject ==
    \A i \in Processados :
        LET r == resultados[i]
        IN  (trilhas[i] # <<>> /\ r.status \in {"ok", "not_found"} /\ r.source # <<>>
                /\ ~DeObjetoExato(trilhas[i])) =>
                /\ r.code # codigos[i] => r.detail = DetPrimeiro
                /\ r.detail = <<>> => r.code = codigos[i]

\* Scenario E: a record with a description and another code than the
\* candidate, taken from the first item of the search, flagged as a fallback
FallbackRecordFlagged ==
    \E i \in Processados :
        /\ Len(trilhas[i]) = 2
        /\ resultados[i].code # codigos[i]
        /\ resultados[i].status = "ok"
        /\ resultados[i].detail = DetPrimeiro

\* C18: in every record returned, the status is ok exactly when the
\* description is non-empty; an invalid or error record has an empty resolved
\* code and an empty description; the provenance is empty exactly for the
\* invalid records and the final not-found record, is the exact URL for the
\* records of the exact stage and the search URL for those of the search stage.
RecordInvariant ==
    \A i \in Processados :
        LET r == resultados[i]
            t == trilhas[i]
            cand == codigos[i]
            final == Len(t) = 2 /\ SemRegistroBusca(t[2])
        IN  /\ r.status \in StatusDeRegistro
            /\ r.status = "ok" <=> r.description # <<>>
            /\ r.status \in {"invalid", "error"} =>
                  r.code = <<>> /\ r.description = <<>>
            /\ r.status = "invalid" <=> t = <<>>
            /\ r.source = <<>> <=> (r.status = "invalid" \/ final)
            /\ Len(t) = 1 => r.source = ExactUrl(cand)
            /\ (Len(t) = 2 /\ ~final) => r.source = SearchUrl(cand)

\* an error record of the search stage, with the search URL as provenance
SearchErrorRecord ==
    \E i \in Processados :
        /\ Len(trilhas[i]) = 2
        /\ resultados[i].status = "error"
        /\ resultados[i].source = SearchUrl(codigos[i])

====
